---- MODULE Spec2Model ----
(***************************************************************************)
(* Orders service of the book store (routes/orders.js) together with the   *)
(* two collaborators its create handler calls: the users service and the   *)
(* books service.                                                           *)
(*                                                                          *)
(* Money is a JavaScript number in the source.  Here an amount is an       *)
(* integer count of thousandths of a currency unit (12.99 is 12990), so    *)
(* that rounding to two decimals is a real operation.  An absent string    *)
(* field is NULL.                                                           *)
(***************************************************************************)
EXTENDS Integers, Sequences, FiniteSets, TLC

NULL == "null"

\* A JavaScript value that is a number, undefined, NaN or an array.  They are
\* records with different fields, so that any two of them can be compared.
Num(n) == [num |-> n]
Undefined == [undefined |-> TRUE]
NaN == [nan |-> TRUE]
Array(seq) == [array |-> seq]
IsNum(v) == DOMAIN v = {"num"}
IsArray(v) == DOMAIN v = {"array"}

\* ---------------------------------------------------------------- bounds
MaxOrders == 2
MaxItems == 2

\* ------------------------------------------------------- program constants
DefaultPrice == 10990

validStatuses == <<"pending", "confirmed", "shipped", "delivered", "cancelled">>

\* ------------------------------------------------------------ input sets
Reqs == {"r1", "r2"}
UserIds == {"user-1", "user-2"}
BookIds == {"book-1", "book-2"}
Quantities == {Undefined, Num(-1), Num(0), Num(2)}
Prices == {12990, 1008}
StatusInputs == {NULL, "bogus", "pending", "confirmed", "shipped", "delivered", "cancelled"}
IdInputs == 1..(MaxOrders + 1)
AnswerKinds == {"price", "noprice", "error"}
Outcomes == {"ok", "failed"}
UserIdInputs == UserIds \cup {NULL}

Includes(seq, x) == \E k \in 1..Len(seq) : seq[k] = x

\* An item of a request body: an object whose bookId and quantity may be absent.
ItemInputs == [bookId : BookIds \cup {NULL}, quantity : Quantities]

RECURSIVE SeqsUpTo(_, _)
SeqsUpTo(S, n) ==
  IF n = 0 THEN {<<>>}
  ELSE LET shorter == SeqsUpTo(S, n - 1)
       IN shorter \cup {Append(s, x) : s \in {t \in shorter : Len(t) = n - 1}, x \in S}

\* req.body.items: absent, not an array, or an array of items.
ItemsInputs == {Undefined, Num(7)} \cup {Array(s) : s \in SeqsUpTo(ItemInputs, MaxItems)}

VARIABLES
  orders,   \* the in-memory store: a sequence of orders
  books,    \* books service: price of each book
  rq,       \* per create request in flight: the handler's locals and position
  last,     \* the last request the orders service answered, and its response
  prov,     \* history: per stored order, the lookups it was built from, the
            \* size of the store when its request arrived and the order as
            \* create returned it
  now       \* the server's clock

VARIABLES
  hc,       \* gateway: the /health handler's locals and position
  px,       \* gateway: the request the proxy has forwarded, if any
  gwLast    \* the last request the gateway answered, and its response

gateway == <<hc, px, gwLast>>

vars == <<orders, books, rq, last, prov, now, hc, px, gwLast>>

\* ------------------------------------------------------------- arithmetic
\* bookPrice * item.quantity; undefined * n is NaN
Mul(p, q) == IF IsNum(p) /\ IsNum(q) THEN Num(p.num * q.num) ELSE NaN
\* totalAmount += itemTotal; NaN absorbs
Add(a, b) == IF IsNum(a) /\ IsNum(b) THEN Num(a.num + b.num) ELSE NaN
\* Mutant of ToFixed2: the total is cut to two decimals instead of rounded.
ToFixed2_Truncates(x) == IF IsNum(x) THEN Num((x.num \div 10) * 10) ELSE NaN

\* Number.parseFloat(x.toFixed(2)): the nearest hundredth, the larger on a tie
ToFixed2(x) == IF IsNum(x) THEN Num(((x.num + 5) \div 10) * 10) ELSE NaN

\* ------------------------------------------------------------------ store
SeedOrder ==
  [id |-> 1, userId |-> "user-1",
   items |-> <<[bookId |-> "book-1", quantity |-> Num(2), price |-> Num(12990)],
               [bookId |-> "book-2", quantity |-> Num(1), price |-> Num(14990)]>>,
   totalAmount |-> Num(40970), status |-> "confirmed", createdAt |-> 0]

\* Mutant of uuidv4: the id is taken when the module loads, one for all orders.
uuidv4_Once == Len(<<SeedOrder>>) + 1

\* uuidv4(): an id no stored order has
uuidv4 == Len(orders) + 1

\* orders.findIndex((o) => o.id === id); 0 stands for -1
FindIndex(id) ==
  IF \E k \in 1..Len(orders) : orders[k].id = id
  THEN CHOOSE k \in 1..Len(orders) :
         orders[k].id = id /\ \A j \in 1..(k - 1) : orders[j].id # id
  ELSE 0

ErrorBody(msg, code) == [error |-> msg, code |-> code]

\* The request just answered (op and its inputs), the status the order it
\* targets had before, and the response: status code and JSON body.
Answered(op, in, was, code, body) ==
  [op |-> op, in |-> in, was |-> was, code |-> code, body |-> body]

CreateIn(userId, items, userOk, answers) ==
  [userId |-> userId, items |-> items, userOk |-> userOk, answers |-> answers]

\* axios.get to the users or the books service, for one id
Lookup(service, id) == [to |-> service, id |-> id]

Idle ==
  [pc |-> "idle", net |-> "none", userId |-> NULL, items |-> <<>>,
   orderItems |-> <<>>, totalAmount |-> Num(0), userOk |-> NULL, answers |-> <<>>,
   sent |-> <<>>, since |-> 0]

InFlight == {r \in Reqs : rq[r].pc # "idle"}

\* ---------------------------------------------------------------- gateway
BOOKS_SERVICE_URL == "http://localhost:3001"
USERS_SERVICE_URL == "http://localhost:3002"
ORDERS_SERVICE_URL == "http://localhost:3003"

\* The backends in the order the /health handler probes them.
Backends == <<"books", "users", "orders">>

ServiceUrl(b) ==
  IF b = "books" THEN BOOKS_SERVICE_URL
  ELSE IF b = "users" THEN USERS_SERVICE_URL
  ELSE ORDERS_SERVICE_URL

\* axios.get(url, { timeout: 2000 }), in milliseconds
ProbeTimeout == 2000

\* What a backend does with a probe: it answers with a status after some
\* milliseconds, or the connection is refused.
Latencies == {150, 2500}
Statuses == {200, 503}
ProbeAnswers ==
  {[kind |-> "response", status |-> st, latency |-> ms] : st \in Statuses, ms \in Latencies}
    \cup {[kind |-> "refused"]}

\* const services = { books: "unknown", users: "unknown", orders: "unknown" }
Unknown == [b \in {"books", "users", "orders"} |-> "unknown"]

\* The /health handler at rest.  issued and probes are history: the probes the
\* call at hand has sent and the answers it has seen.
HealthIdle == [pc |-> "idle", services |-> Unknown, issued |-> <<>>, probes |-> <<>>]

\* The proxy at rest.
ProxyIdle == [pc |-> "idle", path |-> <<>>, forwarded |-> <<>>]

\* The request the gateway just answered, its response, the calls to backends
\* made for it, and the services the /health response before it reported.
GatewayAnswered(op, in, code, body, log, before) ==
  [op |-> op, in |-> in, code |-> code, body |-> body, log |-> log, before |-> before]

Init ==
  /\ orders = <<SeedOrder>>
  /\ books = [b \in BookIds |-> IF b = "book-1" THEN 12990 ELSE 14990]
  /\ rq = [r \in Reqs |-> Idle]
  /\ last = Answered("none", NULL, NULL, 0, NULL)
  /\ prov = <<[userOk |-> NULL, answers |-> <<>>, sent |-> <<>>, since |-> 0,
               created |-> SeedOrder]>>
  /\ now = 1
  /\ hc = HealthIdle
  /\ px = ProxyIdle
  /\ gwLast = GatewayAnswered("none", <<>>, 0, [none |-> TRUE], <<>>, Unknown)

\* ------------------------------------------------------- POST /api/orders
\* Mutant of ItemInvalid: the test of the sign of the quantity is left out.
ItemInvalid_NoSignTest(item) ==
  \/ item.bookId = NULL
  \/ ~IsNum(item.quantity)
  \/ item.quantity.num = 0

\* Mutant of ItemInvalid: only the bookId is tested.
ItemInvalid_BookIdOnly(item) == item.bookId = NULL

\* !item.bookId || !item.quantity || item.quantity <= 0
ItemInvalid(item) ==
  \/ item.bookId = NULL
  \/ ~IsNum(item.quantity)
  \/ item.quantity.num = 0
  \/ item.quantity.num <= 0

\* Mutant of BookPrice: the catch block leaves no price behind.
BookPrice_NoDefault(answer) ==
  IF answer.kind = "price" THEN answer.price ELSE Undefined

\* bookPrice after the try/catch around the books lookup
BookPrice(answer) ==
  IF answer.kind = "error" THEN Num(DefaultPrice)
  ELSE IF answer.kind = "price" THEN answer.price
  ELSE Undefined

\* The for-of loop from the top of an iteration to its next await, or, past
\* the last item, to the end of the handler.
LoopStep(r, st) ==
  LET i == Len(st.orderItems) + 1
      in == CreateIn(st.userId, Array(st.items), st.userOk, st.answers)
  IN
  IF i > Len(st.items)
  THEN LET newOrder == [id |-> uuidv4, userId |-> st.userId, items |-> st.orderItems,
                        totalAmount |-> ToFixed2(st.totalAmount),
                        status |-> "pending", createdAt |-> now]
       IN /\ orders' = Append(orders, newOrder)
          /\ prov' = Append(prov, [userOk |-> st.userOk, answers |-> st.answers,
                                    sent |-> st.sent, since |-> st.since,
                                    created |-> newOrder])
          /\ last' = Answered("create", in, NULL, 201, newOrder)
          /\ rq' = [rq EXCEPT ![r] = Idle]
          /\ now' = now + 1
  ELSE IF ItemInvalid(st.items[i])
  THEN /\ last' = Answered("create", in, NULL, 400,
                           ErrorBody("Each item must have bookId and positive quantity", 400))
       /\ rq' = [rq EXCEPT ![r] = Idle]
       /\ UNCHANGED <<orders, prov, now>>
  ELSE /\ rq' = [rq EXCEPT ![r] = [st EXCEPT !.pc = "awaitBook", !.net = "pending",
                                             !.sent = Append(st.sent, Lookup("books", st.items[i].bookId))]]
       /\ UNCHANGED <<orders, prov, last, now>>

\* Mutant of Create: the order is pushed to the store, without lines, before
\* the lookups.
Create_StoresFirst(r, userId, items) ==
  /\ rq[r].pc = "idle"
  /\ IF userId = NULL \/ items = Undefined \/ ~IsArray(items) \/ Len(items.array) = 0
     THEN /\ last' = Answered("create", CreateIn(userId, items, NULL, <<>>), NULL, 400,
                              ErrorBody("UserId and items are required", 400))
          /\ UNCHANGED <<rq, orders, prov>>
     ELSE LET newOrder == [id |-> uuidv4, userId |-> userId, items |-> <<>>,
                           totalAmount |-> Num(0), status |-> "pending", createdAt |-> now]
          IN /\ rq' = [rq EXCEPT ![r] = [Idle EXCEPT !.pc = "awaitUser", !.net = "pending",
                                                     !.userId = userId, !.items = items.array,
                                                     !.sent = <<Lookup("users", userId)>>,
                                                  !.since = Len(orders)]]
             /\ orders' = Append(orders, newOrder)
             /\ prov' = Append(prov, [userOk |-> NULL, answers |-> <<>>,
                                       sent |-> <<>>, since |-> Len(orders),
                                       created |-> newOrder])
             /\ UNCHANGED last
  /\ UNCHANGED <<books, gateway, now>>

\* The handler up to its first await: the check of the body, then the users lookup.
Create(r, userId, items) ==
  /\ rq[r].pc = "idle"
  /\ IF userId = NULL \/ items = Undefined \/ ~IsArray(items) \/ Len(items.array) = 0
     THEN /\ last' = Answered("create", CreateIn(userId, items, NULL, <<>>), NULL, 400,
                              ErrorBody("UserId and items are required", 400))
          /\ UNCHANGED rq
     ELSE /\ rq' = [rq EXCEPT ![r] = [Idle EXCEPT !.pc = "awaitUser", !.net = "pending",
                                                  !.userId = userId, !.items = items.array,
                                                  !.sent = <<Lookup("users", userId)>>,
                                                  !.since = Len(orders)]]
          /\ UNCHANGED last
  /\ UNCHANGED <<orders, books, gateway, prov, now>>

\* Mutant of UserResponds: a rejected users lookup is not caught and reaches
\* the outer catch block.
UserResponds_FailureIsFatal(r, outcome) ==
  /\ rq[r].pc = "awaitUser"
  /\ rq[r].net = "pending"
  /\ IF outcome = "failed"
     THEN /\ last' = Answered("create",
                              CreateIn(rq[r].userId, Array(rq[r].items), outcome, <<>>),
                              NULL, 500, ErrorBody("Failed to create order", 500))
          /\ rq' = [rq EXCEPT ![r] = Idle]
          /\ UNCHANGED <<orders, prov, now>>
     ELSE LoopStep(r, [rq[r] EXCEPT !.userOk = outcome, !.net = "none"])
  /\ UNCHANGED <<books, gateway>>

\* The users lookup settles (resolved, or rejected: refused, 404, 5xx) and the
\* handler runs on to the next await.
UserResponds(r, outcome) ==
  /\ rq[r].pc = "awaitUser"
  /\ rq[r].net = "pending"
  /\ LoopStep(r, [rq[r] EXCEPT !.userOk = outcome, !.net = "none"])
  /\ UNCHANGED <<books, gateway>>

\* Mutant of BookResponds: the line of an item whose lookup failed is put in
\* front of the lines built so far.
BookResponds_FailedLineFirst(r, kind) ==
  /\ rq[r].pc = "awaitBook"
  /\ rq[r].net = "pending"
  /\ LET st == rq[r]
         item == st.items[Len(st.orderItems) + 1]
         answer == IF kind = "price"
                   THEN [kind |-> kind, price |-> Num(books[item.bookId])]
                   ELSE [kind |-> kind]
         bookPrice == BookPrice(answer)
         itemTotal == Mul(bookPrice, item.quantity)
         line == [bookId |-> item.bookId, quantity |-> item.quantity, price |-> bookPrice]
     IN LoopStep(r, [st EXCEPT
                       !.net = "none",
                       !.totalAmount = Add(st.totalAmount, itemTotal),
                       !.orderItems = IF kind = "error"
                                      THEN <<line>> \o st.orderItems
                                      ELSE Append(st.orderItems, line),
                       !.answers = Append(st.answers, answer)])
  /\ UNCHANGED <<books, gateway>>

\* Mutant of BookResponds: a failed lookup is issued once more before the
\* default price is taken.
BookResponds_RetriesOnce(r, kind) ==
  /\ rq[r].pc = "awaitBook"
  /\ rq[r].net = "pending"
  /\ IF kind = "error" /\ Len(rq[r].sent) = Len(rq[r].answers) + 2
     THEN /\ rq' = [rq EXCEPT ![r].sent = Append(@, @[Len(@)])]
          /\ UNCHANGED <<orders, last, prov, now>>
     ELSE LET st == rq[r]
              item == st.items[Len(st.orderItems) + 1]
              answer == IF kind = "price"
                        THEN [kind |-> kind, price |-> Num(books[item.bookId])]
                        ELSE [kind |-> kind]
              bookPrice == BookPrice(answer)
              itemTotal == Mul(bookPrice, item.quantity)
          IN LoopStep(r, [st EXCEPT
                            !.net = "none",
                            !.totalAmount = Add(st.totalAmount, itemTotal),
                            !.orderItems = Append(st.orderItems,
                                                  [bookId |-> item.bookId,
                                                   quantity |-> item.quantity,
                                                   price |-> bookPrice]),
                            !.answers = Append(st.answers, answer)])
  /\ UNCHANGED <<books, gateway>>

\* The books lookup of the current item settles and the handler runs on.
BookResponds(r, kind) ==
  /\ rq[r].pc = "awaitBook"
  /\ rq[r].net = "pending"
  /\ LET st == rq[r]
         item == st.items[Len(st.orderItems) + 1]
         answer == IF kind = "price"
                   THEN [kind |-> kind, price |-> Num(books[item.bookId])]
                   ELSE [kind |-> kind]
         bookPrice == BookPrice(answer)
         itemTotal == Mul(bookPrice, item.quantity)
     IN LoopStep(r, [st EXCEPT
                       !.net = "none",
                       !.totalAmount = Add(st.totalAmount, itemTotal),
                       !.orderItems = Append(st.orderItems,
                                             [bookId |-> item.bookId,
                                              quantity |-> item.quantity,
                                              price |-> bookPrice]),
                       !.answers = Append(st.answers, answer)])
  /\ UNCHANGED <<books, gateway>>

\* The dependency accepted the request and never answers.  axios.get is called
\* without a timeout, so nothing settles the call.
DependencyHangs(r) ==
  /\ rq[r].net = "pending"
  /\ rq' = [rq EXCEPT ![r].net = "silent"]
  /\ UNCHANGED <<orders, books, gateway, last, prov, now>>

\* ------------------------------------------------- GET /api/orders?userId=&status=
\* if (req.query.x): an absent parameter and an empty one are both falsy
Truthy(q) == q # NULL /\ q # ""

\* Mutant of List: the status filter is applied to the whole store.
List_StatusOnStore(userId, status) ==
  LET byUser == IF Truthy(userId)
                THEN SelectSeq(orders, LAMBDA o : o.userId = userId)
                ELSE orders
      byStatus == IF Truthy(status)
                  THEN SelectSeq(orders, LAMBDA o : o.status = status)
                  ELSE byUser
  IN /\ last' = Answered("list", [userId |-> userId, status |-> status], NULL, 200, byStatus)
     /\ UNCHANGED <<orders, books, gateway, rq, prov, now>>

List(userId, status) ==
  LET byUser == IF Truthy(userId)
                THEN SelectSeq(orders, LAMBDA o : o.userId = userId)
                ELSE orders
      byStatus == IF Truthy(status)
                  THEN SelectSeq(byUser, LAMBDA o : o.status = status)
                  ELSE byUser
  IN /\ last' = Answered("list", [userId |-> userId, status |-> status], NULL, 200, byStatus)
     /\ UNCHANGED <<orders, books, gateway, rq, prov, now>>

\* ------------------------------------------------------ GET /api/orders/:id
\* Mutant of GetById: the lookup succeeds but the first order is returned.
GetById_ReturnsFirst(id) ==
  /\ LET k == FindIndex(id)
     IN IF k = 0
        THEN last' = Answered("getById", [id |-> id], NULL, 404,
                              ErrorBody("Order not found", 404))
        ELSE last' = Answered("getById", [id |-> id], NULL, 200, orders[1])
  /\ UNCHANGED <<orders, books, gateway, rq, prov, now>>

GetById(id) ==
  /\ LET k == FindIndex(id)
     IN IF k = 0
        THEN last' = Answered("getById", [id |-> id], NULL, 404,
                              ErrorBody("Order not found", 404))
        ELSE last' = Answered("getById", [id |-> id], NULL, 200, orders[k])
  /\ UNCHANGED <<orders, books, gateway, rq, prov, now>>

\* ----------------------------------------------- PATCH /api/orders/:id/status
\* Mutant of SetStatus: the order is looked up before the status is checked.
SetStatus_LookupFirst(id, status) ==
  LET in == [id |-> id, status |-> status]
      orderIndex == FindIndex(id)
  IN IF orderIndex = 0
     THEN /\ last' = Answered("setStatus", in, NULL, 404, ErrorBody("Order not found", 404))
          /\ UNCHANGED <<orders, books, gateway, rq, prov, now>>
     ELSE IF status = NULL \/ ~Includes(validStatuses, status)
     THEN /\ last' = Answered("setStatus", in, NULL, 400,
                              ErrorBody("Valid status is required", 400))
          /\ UNCHANGED <<orders, books, gateway, rq, prov, now>>
     ELSE /\ orders' = [orders EXCEPT ![orderIndex].status = status]
          /\ last' = Answered("setStatus", in, orders[orderIndex].status, 200,
                              orders'[orderIndex])
          /\ UNCHANGED <<books, gateway, rq, prov, now>>

\* Mutant of SetStatus: the response is built from the order as it was found.
SetStatus_AnswersStale(id, status) ==
  LET in == [id |-> id, status |-> status] IN
  IF status = NULL \/ ~Includes(validStatuses, status)
  THEN /\ last' = Answered("setStatus", in, NULL, 400,
                           ErrorBody("Valid status is required", 400))
       /\ UNCHANGED <<orders, books, gateway, rq, prov, now>>
  ELSE LET orderIndex == FindIndex(id)
       IN IF orderIndex = 0
          THEN /\ last' = Answered("setStatus", in, NULL, 404,
                                   ErrorBody("Order not found", 404))
               /\ UNCHANGED <<orders, books, gateway, rq, prov, now>>
          ELSE /\ orders' = [orders EXCEPT ![orderIndex].status = status]
               /\ last' = Answered("setStatus", in, orders[orderIndex].status, 200,
                                   orders[orderIndex])
               /\ UNCHANGED <<books, gateway, rq, prov, now>>

SetStatus(id, status) ==
  LET in == [id |-> id, status |-> status] IN
  IF status = NULL \/ ~Includes(validStatuses, status)
  THEN /\ last' = Answered("setStatus", in, NULL, 400,
                           ErrorBody("Valid status is required", 400))
       /\ UNCHANGED <<orders, books, gateway, rq, prov, now>>
  ELSE LET orderIndex == FindIndex(id)
       IN IF orderIndex = 0
          THEN /\ last' = Answered("setStatus", in, NULL, 404,
                                   ErrorBody("Order not found", 404))
               /\ UNCHANGED <<orders, books, gateway, rq, prov, now>>
          ELSE /\ orders' = [orders EXCEPT ![orderIndex].status = status]
               /\ last' = Answered("setStatus", in, orders[orderIndex].status, 200,
                                   orders'[orderIndex])
               /\ UNCHANGED <<books, gateway, rq, prov, now>>

\* --------------------------------------------------- DELETE /api/orders/:id
\* Mutant of Cancel: a delivered order is not cancelled.
Cancel_Guarded(id) ==
  LET orderIndex == FindIndex(id)
  IN IF orderIndex = 0
     THEN /\ last' = Answered("cancel", [id |-> id], NULL, 404,
                              ErrorBody("Order not found", 404))
          /\ UNCHANGED <<orders, books, gateway, rq, prov, now>>
     ELSE IF orders[orderIndex].status = "delivered"
     THEN /\ last' = Answered("cancel", [id |-> id], orders[orderIndex].status, 400,
                              ErrorBody("Order cannot be cancelled", 400))
          /\ UNCHANGED <<orders, books, gateway, rq, prov, now>>
     ELSE /\ orders' = [orders EXCEPT ![orderIndex].status = "cancelled"]
          /\ last' = Answered("cancel", [id |-> id], orders[orderIndex].status, 200,
                              [message |-> "Order cancelled successfully",
                               order |-> orders'[orderIndex]])
          /\ UNCHANGED <<books, gateway, rq, prov, now>>

\* Mutant of Cancel: the order is spliced out of the store.
Cancel_Deletes(id) ==
  LET orderIndex == FindIndex(id)
  IN IF orderIndex = 0
     THEN /\ last' = Answered("cancel", [id |-> id], NULL, 404,
                              ErrorBody("Order not found", 404))
          /\ UNCHANGED <<orders, books, gateway, rq, prov, now>>
     ELSE /\ orders' = SubSeq(orders, 1, orderIndex - 1)
                         \o SubSeq(orders, orderIndex + 1, Len(orders))
          /\ prov' = SubSeq(prov, 1, orderIndex - 1)
                       \o SubSeq(prov, orderIndex + 1, Len(prov))
          /\ last' = Answered("cancel", [id |-> id], orders[orderIndex].status, 200,
                              [message |-> "Order cancelled successfully",
                               order |-> [orders[orderIndex] EXCEPT !.status = "cancelled"]])
          /\ UNCHANGED <<books, gateway, rq, now>>

Cancel(id) ==
  LET orderIndex == FindIndex(id)
  IN IF orderIndex = 0
     THEN /\ last' = Answered("cancel", [id |-> id], NULL, 404,
                              ErrorBody("Order not found", 404))
          /\ UNCHANGED <<orders, books, gateway, rq, prov, now>>
     ELSE /\ orders' = [orders EXCEPT ![orderIndex].status = "cancelled"]
          /\ last' = Answered("cancel", [id |-> id], orders[orderIndex].status, 200,
                              [message |-> "Order cancelled successfully",
                               order |-> orders'[orderIndex]])
          /\ UNCHANGED <<books, gateway, rq, prov, now>>

\* ------------------------------------- books service: PUT /api/books/:id {price}
PutBook(b, p) ==
  /\ books[b] # p
  /\ books' = [books EXCEPT ![b] = p]
  /\ UNCHANGED <<orders, gateway, rq, last, prov, now>>

\* ------------------------------------------------------ gateway: GET /health
\* The services of the latest /health response so far.
LastHealth == IF gwLast.op = "health" THEN gwLast.body.services ELSE gwLast.before

\* Mutant of Resolves: any answer that arrives in time counts as a success.
Resolves_AnyStatus(answer) ==
  /\ answer.kind = "response"
  /\ answer.latency < ProbeTimeout

\* await axios.get(url, { timeout: 2000 }) returns instead of throwing: the
\* answer arrived within the timeout and its status is 2xx.
Resolves(answer) ==
  /\ answer.kind = "response"
  /\ answer.latency < ProbeTimeout
  /\ answer.status \in 200..299

\* The handler up to its first await: the probe of the books service.
HealthStart ==
  /\ hc.pc = "idle"
  /\ hc' = [HealthIdle EXCEPT !.pc = Backends[1], !.issued = <<Backends[1]>>]
  /\ UNCHANGED <<orders, books, rq, last, prov, now, px, gwLast>>

\* The probe the handler awaits settles; the handler records the result and
\* runs on to the next probe or, after the last, to the response.
ProbeSettles(answer) ==
  /\ hc.pc # "idle"
  /\ LET b == hc.pc
         k == CHOOSE i \in 1..Len(Backends) : Backends[i] = b
         services == [hc.services EXCEPT
                        ![b] = IF Resolves(answer) THEN "healthy" ELSE "unhealthy"]
         probes == Append(hc.probes, [backend |-> b, url |-> ServiceUrl(b), answer |-> answer])
     IN IF k = Len(Backends)
        THEN /\ gwLast' = GatewayAnswered("health", <<>>, 200,
                                          [gateway |-> "healthy", services |-> services],
                                          probes, LastHealth)
             /\ hc' = HealthIdle
        ELSE /\ hc' = [hc EXCEPT !.pc = Backends[k + 1], !.services = services,
                                 !.probes = probes,
                                 !.issued = Append(hc.issued, Backends[k + 1])]
             /\ UNCHANGED gwLast
  /\ UNCHANGED <<orders, books, rq, last, prov, now, px>>

\* ------------------------------------------------------- gateway: the proxies
\* app.use(prefix, createProxyMiddleware({ target })) in the order of the calls
Mounts ==
  <<[prefix |-> <<"api", "books">>, target |-> BOOKS_SERVICE_URL],
    [prefix |-> <<"api", "users">>, target |-> USERS_SERVICE_URL],
    [prefix |-> <<"api", "orders">>, target |-> ORDERS_SERVICE_URL]>>

\* Request paths, as their segments.
Paths ==
  {<<"api", "books", "book-1">>, <<"api", "users">>,
   <<"api", "orders", "1", "status">>, <<"api", "reviews">>}

\* Mutant of Mounted: only the first segment of the mount path is compared.
Mounted_FirstSegment(path, prefix) == Len(path) >= 1 /\ path[1] = prefix[1]

\* app.use(prefix, ...) takes a request whose path is the prefix or lies under it
Mounted(path, prefix) ==
  /\ Len(path) >= Len(prefix)
  /\ SubSeq(path, 1, Len(prefix)) = prefix

\* The first proxy mounted on the path; 0 when none is and the 404 handler runs.
Route(path) ==
  IF \E k \in 1..Len(Mounts) : Mounted(path, Mounts[k].prefix)
  THEN CHOOSE k \in 1..Len(Mounts) :
         /\ Mounted(path, Mounts[k].prefix)
         /\ \A j \in 1..(k - 1) : ~Mounted(path, Mounts[j].prefix)
  ELSE 0

\* A request reaches the gateway: the proxy mounted on its path sends it to its
\* target, or the 404 handler answers.
Forward(path) ==
  /\ px.pc = "idle"
  /\ LET k == Route(path)
     IN IF k = 0
        THEN /\ gwLast' = GatewayAnswered("route", path, 404,
                                          ErrorBody("Route not found", 404), <<>>, LastHealth)
             /\ UNCHANGED px
        ELSE /\ px' = [pc |-> "forwarded", path |-> path,
                       forwarded |-> <<Mounts[k].target>>]
             /\ UNCHANGED gwLast
  /\ UNCHANGED <<orders, books, rq, last, prov, now, hc>>

\* The backend answers and the proxy passes the answer on.
BackendResponds(status) ==
  /\ px.pc = "forwarded"
  /\ gwLast' = GatewayAnswered("proxy", px.path, status,
                               [upstream |-> px.forwarded[Len(px.forwarded)]],
                               [k \in 1..Len(px.forwarded) |->
                                  [target |-> px.forwarded[k],
                                   answer |-> [kind |-> "response", status |-> status]]],
                               LastHealth)
  /\ px' = ProxyIdle
  /\ UNCHANGED <<orders, books, rq, last, prov, now, hc>>

\* The connection to the backend fails (refused, reset, timed out) and
\* proxyOptions.onError answers.
BackendFails(kind) ==
  /\ px.pc = "forwarded"
  /\ gwLast' = GatewayAnswered("proxy", px.path, 503,
                               ErrorBody("Service temporarily unavailable", 503),
                               [k \in 1..Len(px.forwarded) |->
                                  [target |-> px.forwarded[k], answer |-> [kind |-> kind]]],
                               LastHealth)
  /\ px' = ProxyIdle
  /\ UNCHANGED <<orders, books, rq, last, prov, now, hc>>

\* ------------------------------------------------------------ specifications
\* The store is bounded: a create request is accepted while there is room for
\* its order and no other create is in flight.
Room == InFlight = {} /\ Len(orders) < MaxOrders

\* Spec: the whole service.  Every handler, with create requests one at a time
\* and drawn from a few bodies, the users service up and the books service
\* answering or failing.  SpecPair has the creates that overlap.
SpecUserIds == {NULL, "user-2"}
SpecItems ==
  {Undefined,
   Array(<<[bookId |-> "book-1", quantity |-> Num(2)]>>),
   Array(<<[bookId |-> "book-2", quantity |-> Num(1)],
           [bookId |-> "book-1", quantity |-> Num(0)]>>)}

Next ==
  \/ Room /\ \E r \in Reqs, userId \in SpecUserIds, items \in SpecItems :
              Create(r, userId, items)
  \/ \E r \in Reqs : UserResponds(r, "ok")
  \/ \E r \in Reqs, kind \in {"price", "error"} : BookResponds(r, kind)
  \/ \E userId \in UserIdInputs, status \in {NULL, "", "cancelled"} :
       List(userId, status)
  \/ \E id \in IdInputs : GetById(id)
  \/ \E id \in IdInputs, status \in StatusInputs : SetStatus(id, status)
  \/ \E id \in IdInputs : Cancel(id)
  \/ \E p \in Prices : PutBook("book-1", p)

Spec == Init /\ [][Next]_vars

\* SpecCreate: one create request to the freshly started service, over every
\* request body and every behaviour of the two collaborators.
Fresh == orders = <<SeedOrder>> /\ last.op = "none"

NextCreate ==
  \/ Fresh /\ \E userId \in UserIdInputs, items \in ItemsInputs :
               Create("r1", userId, items)
  \/ \E outcome \in Outcomes : UserResponds("r1", outcome)
  \/ \E kind \in AnswerKinds : BookResponds("r1", kind)
  \/ DependencyHangs("r1")
  \/ \E p \in Prices : PutBook("book-1", p)

SpecCreate == Init /\ [][NextCreate]_vars

\* SpecPair: runs of create side by side, for comparing two of them.  A run is a
\* create request that passed the check of its body.
MaxRuns == 2
PairItems ==
  {Array(<<[bookId |-> "book-1", quantity |-> Num(2)]>>),
   Array(<<[bookId |-> "book-1", quantity |-> Num(2)],
           [bookId |-> "book-2", quantity |-> Num(0)]>>)}

NextPair ==
  \/ Len(orders) - 1 + Cardinality(InFlight) < MaxRuns
       /\ \E r \in Reqs, items \in PairItems : Create(r, "user-1", items)
  \/ \E r \in Reqs, outcome \in Outcomes : UserResponds(r, outcome)
  \/ \E r \in Reqs, kind \in {"price", "error"} : BookResponds(r, kind)

SpecPair == Init /\ [][NextPair]_vars

\* SpecGateway: the gateway alone, its backends answering, failing or slow.
NextGateway ==
  \/ HealthStart
  \/ \E answer \in ProbeAnswers : ProbeSettles(answer)
  \/ \E path \in Paths : Forward(path)
  \/ \E status \in Statuses : BackendResponds(status)
  \/ \E kind \in {"refused", "timedout"} : BackendFails(kind)

SpecGateway == Init /\ [][NextGateway]_vars

\* ------------------------------------------------------------------ claims
\* What the specification calls a valid request, stated apart from the handler.
ValidItem(item) ==
  /\ item.bookId # NULL
  /\ IsNum(item.quantity)
  /\ item.quantity.num > 0

ValidBody(in) ==
  /\ in.userId # NULL
  /\ IsArray(in.items)
  /\ Len(in.items.array) > 0
  /\ \A k \in 1..Len(in.items.array) : ValidItem(in.items.array[k])

\* The nearest whole hundredth of an amount given in thousandths.
RoundCents(n) ==
  LET down == n - (n % 10)
  IN IF n - down >= 5 THEN down + 10 ELSE down

RECURSIVE LineSum(_)
LineSum(lines) ==
  IF lines = <<>> THEN 0
  ELSE lines[1].price.num * lines[1].quantity.num + LineSum(Tail(lines))

\* A create request has just been answered and every item of it was looked up.
Completed ==
  /\ last.op = "create"
  /\ ValidBody(last.in)
  /\ Len(last.in.answers) = Len(last.in.items.array)

AnswerKindsOf(in) == {in.answers[k].kind : k \in 1..Len(in.answers)}

\* C1: when the books service answers every item of a valid create with a
\* price, every line carries the price answered for it and totalAmount is the
\* sum of price * quantity over the lines, rounded to two decimals.
C1_TotalIsRoundedSum ==
  (Completed /\ AnswerKindsOf(last.in) = {"price"}) =>
    /\ last.code = 201
    /\ Len(last.body.items) = Len(last.in.answers)
    /\ \A k \in 1..Len(last.body.items) :
         last.body.items[k].price = last.in.answers[k].price
    /\ last.body.totalAmount =
         Num(RoundCents(LineSum([k \in 1..Len(last.in.answers) |->
               [price |-> last.in.answers[k].price,
                quantity |-> last.in.items.array[k].quantity]])))

\* C1 witness: two items answered with prices whose exact sum is not a whole
\* number of hundredths.
C1_Witness ==
  /\ Completed
  /\ AnswerKindsOf(last.in) = {"price"}
  /\ Len(last.in.answers) = 2
  /\ LineSum(last.body.items) % 10 # 0
  /\ last.code = 201

\* C2: a valid create whose book lookups fail for any subset of its items
\* still answers 201 and appends the order; a line whose lookup failed has
\* the price 10.99, the others the price answered, and totalAmount is
\* computed from those prices.
C2_LookupFailureDefaults ==
  (Completed /\ AnswerKindsOf(last.in) \subseteq {"price", "error"}) =>
    /\ last.code = 201
    /\ orders[Len(orders)] = last.body
    /\ Len(last.body.items) = Len(last.in.answers)
    /\ \A k \in 1..Len(last.body.items) :
         last.body.items[k].price =
           IF last.in.answers[k].kind = "error" THEN Num(10990)
           ELSE last.in.answers[k].price
    /\ last.body.totalAmount = Num(RoundCents(LineSum(last.body.items)))

\* C2 witness: of two items one lookup failed and the other was answered.
C2_Witness ==
  /\ Completed
  /\ AnswerKindsOf(last.in) = {"price", "error"}
  /\ last.code = 201
  /\ Len(orders) = 2

\* C5: a books answer without a usable price falls back to the default price
\* like an error does; no stored line has an undefined or non-numeric price.
C5_MalformedFallsBack ==
  /\ \A k \in 1..Len(orders) : \A j \in 1..Len(orders[k].items) :
       IsNum(orders[k].items[j].price)
  /\ Completed =>
       \A k \in 1..Len(last.in.answers) :
         last.in.answers[k].kind = "noprice" =>
           last.body.items[k].price = Num(10990)

\* The request a stored order was built from.
RequestOf(o) ==
  [userId |-> o.userId,
   items |-> [k \in 1..Len(o.items) |->
                [bookId |-> o.items[k].bookId, quantity |-> o.items[k].quantity]]]

\* C3: the outcome of create does not depend on the users service.  Two runs
\* with the same request and the same books answers store orders with the
\* same lines, totalAmount and status whatever their users lookups did, and
\* the response status follows from the request alone.
C3_IdentityIndependent ==
  /\ \A i \in 2..Len(orders) : \A j \in 2..Len(orders) :
       (RequestOf(orders[i]) = RequestOf(orders[j]) /\ prov[i].answers = prov[j].answers)
         => /\ orders[i].items = orders[j].items
            /\ orders[i].totalAmount = orders[j].totalAmount
            /\ orders[i].status = orders[j].status
  /\ (last.op = "create" /\ last.in.userOk # NULL) =>
       /\ ValidBody(last.in) => last.code = 201 /\ last.body = orders[Len(orders)]
       /\ ~ValidBody(last.in) => last.code = 400

\* C3 witness: two stored orders from the same request and the same books
\* answers, one built after the users lookup succeeded, one after it failed.
C3_Witness ==
  \E i \in 2..Len(orders) : \E j \in 2..Len(orders) :
    /\ RequestOf(orders[i]) = RequestOf(orders[j])
    /\ prov[i].answers = prov[j].answers
    /\ prov[i].userOk = "ok"
    /\ prov[j].userOk = "failed"
    /\ orders[i].items = orders[j].items

HasInvalidItem(in) ==
  /\ in.userId # NULL
  /\ IsArray(in.items)
  /\ \E k \in 1..Len(in.items.array) : ~ValidItem(in.items.array[k])

FirstInvalid(items) ==
  CHOOSE k \in 1..Len(items) :
    ~ValidItem(items[k]) /\ \A j \in 1..(k - 1) : ValidItem(items[j])

\* C4 as claimed: a request with an invalid item at any position is rejected
\* with 400 before any books lookup is issued for it.
C4_NoLookupBeforeReject ==
  /\ \A r \in Reqs :
       rq[r].pc = "awaitBook" => \A k \in 1..Len(rq[r].items) : ValidItem(rq[r].items[k])
  /\ (last.op = "create" /\ HasInvalidItem(last.in)) =>
       last.code = 400 /\ Len(last.in.answers) = 0

\* C4 as amended: the items are checked one by one inside the pricing loop.  A
\* request with an invalid item is rejected with 400 and appends nothing; no
\* books lookup is issued for the first invalid item or any item after it, but
\* the lookups of the valid items before it have been issued and answered.
C4_RejectAtFirstInvalid ==
  /\ \A r \in Reqs :
       rq[r].pc = "awaitBook" =>
         \A k \in 1..(Len(rq[r].orderItems) + 1) : ValidItem(rq[r].items[k])
  /\ (last.op = "create" /\ HasInvalidItem(last.in)) =>
       /\ last.code = 400
       /\ Len(last.in.answers) = FirstInvalid(last.in.items.array) - 1
       /\ orders = <<SeedOrder>>

\* C4 witness: a request rejected for its second item, after the lookup of its
\* first item was answered.
C4_Witness ==
  /\ last.op = "create"
  /\ HasInvalidItem(last.in)
  /\ last.code = 400
  /\ Len(last.in.answers) = 1
  /\ FirstInvalid(last.in.items.array) = 2

\* The handler of request r resumes: the lookup it awaits settles.
Settle(r) ==
  \/ \E outcome \in Outcomes : UserResponds(r, outcome)
  \/ \E kind \in AnswerKinds : BookResponds(r, kind)

\* C6: every lookup of create has a timeout, so a create in flight can always
\* still be answered: a dependency that never answers cannot block it forever.
\* A request whose handler can never resume again is blocked forever.
C6_CreateAlwaysAnswers ==
  \A r \in Reqs : rq[r].pc # "idle" => ENABLED Settle(r)

StoredOrdersValid ==
  \A k \in 1..Len(orders) :
    /\ Len(orders[k].items) >= 1
    /\ \A j \in 1..Len(orders[k].items) : ValidItem(orders[k].items[j])

Exists(id) == \E k \in 1..Len(orders) : orders[k].id = id
StatusOf(id) == orders[FindIndex(id)].status
Recognized(status) == status \in {"pending", "confirmed", "shipped", "delivered", "cancelled"}

\* C7: setStatus with a missing or unrecognized status answers 400 whether or
\* not the id exists, and changes no order of the store.
C7_BadStatusRejected ==
  [][(last'.op = "setStatus" /\ ~Recognized(last'.in.status))
       => (last'.code = 400 /\ orders' = orders)]_vars

\* C7 witness: an unrecognized status sent for an id no order has.
C7_Witness ==
  /\ last.op = "setStatus"
  /\ last.in.status = "bogus"
  /\ ~Exists(last.in.id)
  /\ last.code = 400

\* C8: there is no transition guard.  setStatus with a recognized status on an
\* existing order answers 200 and leaves that status; cancel on an existing
\* order answers 200 and leaves it cancelled; either on an absent id answers 404.
C8_NoTransitionGuard ==
  /\ (last.op = "setStatus" /\ Recognized(last.in.status)) =>
       IF Exists(last.in.id)
       THEN /\ last.code = 200
            /\ StatusOf(last.in.id) = last.in.status
            /\ last.body = orders[FindIndex(last.in.id)]
       ELSE last.code = 404
  /\ last.op = "cancel" =>
       IF Exists(last.in.id)
       THEN /\ last.code = 200
            /\ StatusOf(last.in.id) = "cancelled"
            /\ last.body.order = orders[FindIndex(last.in.id)]
       ELSE last.code = 404

\* C8 witness: a delivered order was cancelled.
C8_Witness ==
  /\ last.op = "cancel"
  /\ last.was = "delivered"
  /\ last.code = 200
  /\ StatusOf(last.in.id) = "cancelled"

Frozen(o) ==
  [id |-> o.id, userId |-> o.userId, items |-> o.items,
   totalAmount |-> o.totalAmount, createdAt |-> o.createdAt]

\* C9: no step removes or moves an order or changes anything of it but its
\* status, whatever the books service does to its prices meanwhile.
C9_OrdersFrozen ==
  [][/\ Len(orders') >= Len(orders)
     /\ \A k \in 1..Len(orders) : Frozen(orders'[k]) = Frozen(orders[k])]_vars

\* C9 witness: the seed order is cancelled and still stored, a later order
\* follows it, and its line still carries the price book-1 no longer has.
C9_Witness ==
  /\ Len(orders) = 2
  /\ orders[1].status = "cancelled"
  /\ Frozen(orders[1]) = Frozen(SeedOrder)
  /\ orders[1].items[1].bookId = "book-1"
  /\ orders[1].items[1].price # Num(books["book-1"])

\* C11: getById on the id of a stored order answers 200 with that order as
\* create returned it, but for the status, which is the one the order has now;
\* the status of an order changes only in a setStatus or cancel on its id.
\* getById on an id no stored order has answers 404.  getById changes nothing.
C11_GetByIdReturnsCreated ==
  /\ [](last.op = "getById" =>
         IF Exists(last.in.id)
         THEN /\ last.code = 200
              /\ \A k \in 1..Len(orders) :
                   orders[k].id = last.in.id =>
                     last.body = [prov[k].created EXCEPT !.status = orders[k].status]
         ELSE /\ last.code = 404
              /\ last.body = ErrorBody("Order not found", 404))
  /\ [][last'.op = "getById" => orders' = orders]_vars
  /\ [][\A k \in 1..Len(orders) :
          orders'[k].status # orders[k].status =>
            /\ last'.op \in {"setStatus", "cancel"}
            /\ last'.in.id = orders[k].id]_vars

\* C11 witness: getById on the id of an order appended by create, no status
\* update since, answered with the order create returned.
C11_Witness ==
  /\ last.op = "getById"
  /\ last.code = 200
  /\ Len(orders) = 2
  /\ last.in.id = orders[2].id
  /\ last.body = prov[2].created
  /\ last.body.status = "pending"

\* A filter is provided when the query carries a value for it.
Provided(q) == q # NULL /\ q # ""

Matches(o, in) ==
  /\ Provided(in.userId) => o.userId = in.userId
  /\ Provided(in.status) => o.status = in.status

Matching(in) == {k \in 1..Len(orders) : Matches(orders[k], in)}

\* C12: list answers 200 with exactly the stored orders that match every
\* provided filter, each once, in the order of the store, and changes nothing.
C12_ListIsFilteredStore ==
  /\ [](last.op = "list" =>
         /\ last.code = 200
         /\ Len(last.body) = Cardinality(Matching(last.in))
         /\ \A i \in 1..Len(last.body) :
              \E k \in Matching(last.in) :
                /\ Cardinality({j \in Matching(last.in) : j < k}) = i - 1
                /\ last.body[i] = orders[k])
  /\ [][last'.op = "list" => orders' = orders]_vars

\* C12 witness: two pending orders of different users, listed with both
\* filters; only the second matches both.
C12_Witness ==
  /\ last.op = "list"
  /\ Provided(last.in.userId) /\ Provided(last.in.status)
  /\ Len(orders) = 2
  /\ orders[1].status = orders[2].status
  /\ orders[1].userId # orders[2].userId
  /\ last.body = <<orders[2]>>

\* C13: the lines of a created order follow the items of the request: as many
\* lines as items, line k with the bookId and the quantity of item k, whether
\* the lookups were answered or failed.  The lookups of one request are issued
\* one at a time, each after the one before it settled.
C13_LinesFollowItems ==
  /\ (last.op = "create" /\ last.code = 201) =>
       /\ Len(last.body.items) = Len(last.in.items.array)
       /\ \A k \in 1..Len(last.body.items) :
            /\ last.body.items[k].bookId = last.in.items.array[k].bookId
            /\ last.body.items[k].quantity = last.in.items.array[k].quantity
  /\ \A r \in Reqs :
       rq[r].pc = "awaitBook" => Len(rq[r].sent) = Len(rq[r].answers) + 2

\* C13 witness: an order of two different books, the lookup of the first
\* answered and the lookup of the second failed.
C13_Witness ==
  /\ last.op = "create"
  /\ last.code = 201
  /\ Len(last.body.items) = 2
  /\ last.body.items[1].bookId # last.body.items[2].bookId
  /\ last.in.answers[1].kind = "price"
  /\ last.in.answers[2].kind = "error"

\* The lookups a create request with this userId and these items is to issue:
\* one to the users service, then one to the books service per item.
ExpectedLookups(userId, items) ==
  <<Lookup("users", userId)>> \o [j \in 1..Len(items) |-> Lookup("books", items[j].bookId)]

IsPrefix(s, t) == Len(s) <= Len(t) /\ s = SubSeq(t, 1, Len(s))

\* C14: no lookup is retried.  A stored order was built from exactly one users
\* lookup and one books lookup per item; a request in flight has issued a
\* prefix of those; a failed books lookup leaves the default price on its line
\* and a failed users lookup leaves no trace in the order.
C14_NoRetry ==
  /\ \A k \in 2..Len(orders) :
       /\ prov[k].sent = ExpectedLookups(orders[k].userId, orders[k].items)
       /\ Len(prov[k].answers) = Len(orders[k].items)
       /\ \A j \in 1..Len(orders[k].items) :
            prov[k].answers[j].kind = "error" => orders[k].items[j].price = Num(10990)
  /\ \A r \in Reqs :
       rq[r].pc # "idle" =>
         /\ IsPrefix(rq[r].sent, ExpectedLookups(rq[r].userId, rq[r].items))
         /\ Len(rq[r].sent) = 1 + Len(rq[r].answers) + (IF rq[r].pc = "awaitBook" THEN 1 ELSE 0)

\* C14 witness: an order of two items stored after the users lookup and both
\* books lookups failed, three lookups issued in all.
C14_Witness ==
  /\ Len(orders) = 2
  /\ Len(orders[2].items) = 2
  /\ prov[2].userOk = "failed"
  /\ \A j \in 1..2 : prov[2].answers[j].kind = "error"
  /\ Len(prov[2].sent) = 3

\* C15: an order is in the store only once its create request has finished.
\* The store grows only in the step that ends a create request with 201, by
\* the order that step returns, all its lines built; until then getById,
\* setStatus and cancel on an id no stored order has answer 404 (400 for a bad
\* status) and change nothing.
C15_VisibleOnlyWhenFinished ==
  /\ [][Len(orders') # Len(orders) =>
          \E r \in Reqs :
            /\ rq[r].pc # "idle" /\ rq'[r].pc = "idle"
            /\ last'.op = "create" /\ last'.code = 201
            /\ orders' = Append(orders, last'.body)
            /\ Len(last'.body.items) = Len(rq[r].items)]_vars
  /\ [][(last' # last /\ last'.op \in {"getById", "setStatus", "cancel"}
           /\ ~Exists(last'.in.id))
          => (last'.code \in {404, 400} /\ orders' = orders)]_vars

\* C15 witness: while a create request waits for a books lookup, setStatus with
\* a valid status on the id its order is about to get was answered 404.
C15_Witness ==
  /\ last.op = "setStatus"
  /\ Recognized(last.in.status)
  /\ last.in.id = Len(orders) + 1
  /\ last.code = 404
  /\ \E r \in Reqs : rq[r].pc = "awaitBook"

\* The status a setStatus or cancel request writes.
Written(req) == IF req.op = "cancel" THEN "cancelled" ELSE req.in.status

\* The order a setStatus or cancel response carries.
Shown(req) == IF req.op = "cancel" THEN req.body.order ELSE req.body

\* C16: setStatus and cancel on one order are serialized.  A step that answers
\* one of them with 200 is the whole request: the status it found is the status
\* the order had right before the step, the status it wrote is the status the
\* order has right after, its response shows that status, and no other order
\* and no create request in flight is touched.
C16_MutationsSerialized ==
  [][\A k \in 1..Len(orders) :
       (/\ last' # last
        /\ last'.op \in {"setStatus", "cancel"}
        /\ last'.code = 200
        /\ last'.in.id = orders[k].id)
       => /\ last'.was = orders[k].status
          /\ orders' = [orders EXCEPT ![k].status = Written(last')]
          /\ Shown(last') = orders'[k]
          /\ rq' = rq]_vars

\* C16 witness: while a create request is suspended on a lookup, the seed
\* order was set to shipped by one request and then cancelled by another.
C16_Witness ==
  /\ last.op = "cancel"
  /\ last.code = 200
  /\ last.in.id = 1
  /\ last.was = "shipped"
  /\ orders[1].status = "cancelled"
  /\ \E r \in Reqs : rq[r].pc # "idle"

\* A probe succeeded: the backend answered within the timeout with a 2xx status.
ProbeSucceeded(answer) ==
  /\ answer.kind = "response"
  /\ answer.status >= 200 /\ answer.status < 300
  /\ answer.latency < 2000

\* C17: a /health response is 200 with the gateway healthy; it rests on one
\* probe per backend, all made by this call, and reports each backend healthy
\* when its own probe succeeded and unhealthy when it failed, answered with
\* another status or timed out, whatever the other probes did.
C17_HealthFollowsOwnProbes ==
  gwLast.op = "health" =>
    /\ gwLast.code = 200
    /\ gwLast.body.gateway = "healthy"
    /\ Len(gwLast.log) = 3
    /\ \A b \in {"books", "users", "orders"} :
         /\ Cardinality({k \in 1..Len(gwLast.log) : gwLast.log[k].backend = b}) = 1
         /\ \A k \in 1..Len(gwLast.log) :
              gwLast.log[k].backend = b =>
                gwLast.body.services[b] =
                  IF ProbeSucceeded(gwLast.log[k].answer) THEN "healthy" ELSE "unhealthy"

\* C17 witness: a call that found books too slow, users well and orders
\* answering 503, right after a call that had found books healthy.
C17_Witness ==
  /\ gwLast.op = "health"
  /\ gwLast.before["books"] = "healthy"
  /\ gwLast.log[1].answer = [kind |-> "response", status |-> 200, latency |-> 2500]
  /\ gwLast.log[3].answer = [kind |-> "response", status |-> 503, latency |-> 150]
  /\ gwLast.body.services =
       [b \in {"books", "users", "orders"} |-> IF b = "users" THEN "healthy" ELSE "unhealthy"]

\* C18: the three probes of a /health call are in flight together: while the
\* call waits for any probe, the probes of all three backends have been issued.
C18_ProbesConcurrent ==
  hc.pc # "idle" => hc.issued = <<"books", "users", "orders">>

\* The backend the routing table gives a path.
BackendOf(path) ==
  IF Len(path) < 2 \/ path[1] # "api" THEN "none"
  ELSE IF path[2] = "books" THEN "http://localhost:3001"
  ELSE IF path[2] = "users" THEN "http://localhost:3002"
  ELSE IF path[2] = "orders" THEN "http://localhost:3003"
  ELSE "none"

\* C19: a request under the prefix of a backend is sent to that backend, once.
\* The answer of the backend is passed on; when the connection fails or times
\* out the caller gets 503 with the error envelope, after that one attempt and
\* from no other backend.
C19_ForwardedOnceToOwnBackend ==
  /\ px.pc = "forwarded" => px.forwarded = <<BackendOf(px.path)>>
  /\ gwLast.op = "proxy" =>
       /\ Len(gwLast.log) = 1
       /\ gwLast.log[1].target = BackendOf(gwLast.in)
       /\ IF gwLast.log[1].answer.kind = "response"
          THEN /\ gwLast.code = gwLast.log[1].answer.status
               /\ gwLast.body = [upstream |-> BackendOf(gwLast.in)]
          ELSE /\ gwLast.code = 503
               /\ gwLast.body = [error |-> "Service temporarily unavailable", code |-> 503]
  /\ gwLast.op = "route" => BackendOf(gwLast.in) = "none"

\* C19 witness: a request under /api/orders went to the orders service, the
\* connection timed out and the caller got the 503 envelope.
C19_Witness ==
  /\ gwLast.op = "proxy"
  /\ gwLast.in = <<"api", "orders", "1", "status">>
  /\ gwLast.log = <<[target |-> "http://localhost:3003", answer |-> [kind |-> "timedout"]]>>
  /\ gwLast.code = 503

\* C20: creates that overlap do not disturb each other.  A step that answers a
\* create with 201 appends exactly the order it returns, pending and under an
\* id no stored order had, at the end of the store; no step removes, replaces
\* or moves a stored order; no two stored orders share an id.
C20_CreatesAppendInCompletionOrder ==
  /\ [](\A i \in 1..Len(orders) : \A j \in 1..Len(orders) :
          orders[i].id = orders[j].id => i = j)
  /\ [][(last' # last /\ last'.op = "create" /\ last'.code = 201) =>
          /\ orders' = Append(orders, last'.body)
          /\ last'.body.status = "pending"
          /\ ~Exists(last'.body.id)]_vars
  /\ [][/\ Len(orders') \in {Len(orders), Len(orders) + 1}
        /\ \A k \in 1..Len(orders) : Frozen(orders'[k]) = Frozen(orders[k])
        /\ Len(orders') > Len(orders) => (last'.op = "create" /\ last'.code = 201)]_vars

\* C20 witness: two creates overlapped, both arrived while the store held the
\* seed order alone, and both orders are stored, the later one just returned.
C20_Witness ==
  /\ last.op = "create"
  /\ last.code = 201
  /\ Len(orders) = 3
  /\ prov[2].since = 1
  /\ prov[3].since = 1
  /\ orders[3] = last.body
  /\ orders[2].id # orders[3].id

====
